---- MODULE Spec2Model ----
(***************************************************************************)
(* hikma-engine inference workers: the streaming embedding server          *)
(* (embed_server.py), the one-shot embedding script (embed.py) and the     *)
(* one-shot RAG explainer (llm_rag.py), as one state machine.  The         *)
(* variable worker says which of the three programs the process runs.      *)
(*                                                                         *)
(* Python values are strings with a two-character tag: "None", "i:1",      *)
(* "s:a", "b:True", "l:[]".  A dict is a function from its keys to such    *)
(* values.  A line written to stdout is the dict after json.dumps: a       *)
(* function from its keys to JSON text.                                    *)
(***************************************************************************)
EXTENDS Integers, Sequences, FiniteSets, TLC

\* How many lines the controller feeds the streaming worker before end-of-input.
MaxLines == 4

VARIABLES
    worker,        \* which program this process runs
    pc,            \* position of the single thread of control
    handlers,      \* TRUE once signal.signal installed signal_handler
    MODEL_NAME,    \* embed_server.MODEL_NAME / embed.MODEL_NAME
    tokenizer,     \* the tokenizer global (or CodeRAGService.tokenizer)
    model,         \* the model global (or CodeRAGService.model)
    rag_service,   \* llm_rag.rag_service: "None" or the service's model_name
    consumed,      \* the raw stdin lines (documents) read so far
    backend,       \* per consumed line: "none", or the outcome of its compute call
    line,          \* the stripped line being processed
    request_data,  \* the decoded request
    result,        \* llm_rag: the dict process_request returned
    out,           \* the lines written to stdout
    errout,        \* the lines written to stderr
    exitCode,      \* -1 while running, then the process's exit code
    loadCalls,     \* how many times from_pretrained loading was started
    computeCalls,  \* how many times the backend compute (model forward / generate) ran
    generic,       \* TRUE once main's "Request processing error" handler ran
    signalled,     \* TRUE once signal_handler ran
    startups,      \* how many times the startup path (setup_model / load_model) was entered
    search_results,  \* format_search_context: its search_results argument
    max_results,     \* format_search_context: its max_results argument
    context_parts,   \* format_search_context: the rendered blocks
    context          \* format_search_context: the string it returned

vars == <<worker, pc, handlers, MODEL_NAME, tokenizer, model, rag_service, consumed,
          backend, line, request_data, result, out, errout, exitCode, loadCalls,
          computeCalls, generic, signalled, startups, search_results, max_results,
          context_parts, context>>

\* the state of a call of format_search_context
fmt == <<search_results, max_results, context_parts, context>>

----------------------------------------------------------------------------
(* Strings *)

IsSpace(c) == c \in {" ", "\n", "\t", "\r"}

RECURSIVE lstrip(_)
lstrip(s) ==
    IF Len(s) > 0 /\ IsSpace(SubSeq(s, 1, 1)) THEN lstrip(SubSeq(s, 2, Len(s))) ELSE s

RECURSIVE rstrip(_)
rstrip(s) ==
    IF Len(s) > 0 /\ IsSpace(SubSeq(s, Len(s), Len(s)))
    THEN rstrip(SubSeq(s, 1, Len(s) - 1))
    ELSE s

\* str.strip()
strip(s) == rstrip(lstrip(s))

StartsWith(s, p) == Len(s) >= Len(p) /\ SubSeq(s, 1, Len(p)) = p

----------------------------------------------------------------------------
(* Python values and JSON *)

Tag(v) == SubSeq(v, 1, 2)
Body(v) == SubSeq(v, 3, Len(v))

\* bool(v): None, "", 0, False and [] are falsy.
Truthy(v) == v \notin {"None", "s:", "i:0", "b:False", "l:[]"}

\* json.dumps of one value
json_dumps_val(v) ==
    CASE v = "None" -> "null"
      [] v = "b:True" -> "true"
      [] v = "b:False" -> "false"
      [] Tag(v) = "s:" -> "\"" \o Body(v) \o "\""
      [] OTHER -> Body(v)

\* json.dumps of a dict: every value encoded, keys kept
json_dumps(d) == [k \in DOMAIN d |-> json_dumps_val(d[k])]

NoDict == [k \in {} |-> "None"]

Parsed(kind, d) == [ok |-> TRUE, kind |-> kind, d |-> d, err |-> ""]
Invalid(msg) == [ok |-> FALSE, kind |-> "invalid", d |-> NoDict, err |-> msg]

OneResult == "l:[{\"file_path\":\"src/a.py\",\"similarity\":0.9,\"source_text\":\"x\"}]"

\* json.loads on the documents the model feeds the workers.  Surrounding
\* whitespace is insignificant to the JSON grammar.
json_loads(s) ==
    LET t == strip(s) IN
    CASE t = "42" -> Parsed("int", NoDict)
      [] t = "{}" -> Parsed("dict", NoDict)
      [] t = "{\"text\":\"\"}" -> Parsed("dict", "text" :> "s:")
      [] t = "{\"id\":1,\"text\":\"a\"}" ->
            Parsed("dict", ("id" :> "i:1") @@ ("text" :> "s:a"))
      [] t = "{\"id\":2,\"text\":\"b\"}" ->
            Parsed("dict", ("id" :> "i:2") @@ ("text" :> "s:b"))
      [] t = "{\"id\":\"a\"}" -> Parsed("dict", "id" :> "s:a")
      [] t = "{\"id\":\"a\",\"text\":\"def foo(): pass\"}" ->
            Parsed("dict", ("id" :> "s:a") @@ ("text" :> "s:def foo(): pass"))
      [] t = "{\"query\":\"\",\"search_results\":[{\"file_path\":\"src/a.py\",\"similarity\":0.9,\"source_text\":\"x\"}]}" ->
            Parsed("dict", ("query" :> "s:") @@ ("search_results" :> OneResult))
      [] t = "{\"query\":\"q\"}" -> Parsed("dict", "query" :> "s:q")
      [] t = "{\"query\":\"q\",\"search_results\":[]}" ->
            Parsed("dict", ("query" :> "s:q") @@ ("search_results" :> "l:[]"))
      [] t = "{\"query\":\"q\",\"search_results\":[{\"file_path\":\"src/a.py\",\"similarity\":0.9,\"source_text\":\"x\"}]}" ->
            Parsed("dict", ("query" :> "s:q") @@ ("search_results" :> OneResult))
      [] t = "{\"query\":\"q\",\"search_results\":[{\"file_path\":\"src/a.py\",\"similarity\":0.9,\"source_text\":\"x\"}],\"model\":\"m\"}" ->
            Parsed("dict", ("query" :> "s:q") @@ ("search_results" :> OneResult)
                           @@ ("model" :> "s:m"))
      [] t = "{bad json" ->
            Invalid("Expecting property name enclosed in double quotes: line 1 column 2 (char 1)")
      [] OTHER -> Invalid("Expecting value: line 1 column 1 (char 0)")

\* d.get(k, default); only a dict has the method
HasGet(p) == p.kind = "dict"
get(p, k, default) == IF k \in DOMAIN p.d THEN p.d[k] ELSE default

\* str(e) of the AttributeError a non-dict raises on .get
AttributeErrorMsg(p) == "'" \o p.kind \o "' object has no attribute 'get'"

----------------------------------------------------------------------------
(* The inputs the controller can send *)

\* stdin lines of the streaming worker, as read: with their line ending
LSpaces == "  \n"
LBad == "{bad json\n"
LNum == "42\n"
LEmptyText == "{\"text\":\"\"}\n"
LNoText == "{\"id\":\"a\"}\n"
LReq1 == "{\"id\":1,\"text\":\"a\"}\n"
LReq2 == " {\"id\":2,\"text\":\"b\"}\n"
LReqA == "{\"id\":\"a\",\"text\":\"def foo(): pass\"}\n"

Lines == {LSpaces, LBad, LNum, LEmptyText, LNoText, LReq1, LReq2, LReqA}

\* whole-stdin documents of the one-shot embedding script
DEmpty == ""
DPlain == "def foo(): pass\n"
DEmbedEmptyText == "{\"text\":\"\"}\n"

EmbedDocs == {DEmpty, DPlain, LNum, DEmbedEmptyText, LReq1}

\* whole-stdin documents of the RAG worker
DNotJson == "not json"
DNum == "42"
DNoQuery == "{}"
DEmptyQuery == "{\"query\":\"\",\"search_results\":[{\"file_path\":\"src/a.py\",\"similarity\":0.9,\"source_text\":\"x\"}]}"
DNoResults == "{\"query\":\"q\"}"
DEmptyResults == "{\"query\":\"q\",\"search_results\":[]}"
DValid == "{\"query\":\"q\",\"search_results\":[{\"file_path\":\"src/a.py\",\"similarity\":0.9,\"source_text\":\"x\"}]}"
DValidModel == "{\"query\":\"q\",\"search_results\":[{\"file_path\":\"src/a.py\",\"similarity\":0.9,\"source_text\":\"x\"}],\"model\":\"m\"}"

RagDocs == {DNotJson, DNum, DNoQuery, DEmptyQuery, DNoResults, DEmptyResults, DValid,
            DValidModel}

DefaultEmbedModel == "mixedbread-ai/mxbai-embed-large-v1"
DefaultRagModel == "Qwen/Qwen2.5-Coder-1.5B-Instruct"

\* sys.argv[1:] of the streaming worker
Argvs == {<<>>, <<"custom-model">>}

Workers == {"embed_server", "embed", "llm_rag"}

----------------------------------------------------------------------------
(* Initial state: the process has just started *)

NoRequest == Parsed("None", NoDict)

Init ==
    /\ worker \in Workers
    /\ pc = IF worker = "embed" THEN "import" ELSE "main"
    /\ handlers = FALSE
    /\ MODEL_NAME = IF worker = "llm_rag" THEN "" ELSE DefaultEmbedModel
    /\ tokenizer = "None"
    /\ model = "None"
    /\ rag_service = "None"
    /\ consumed = <<>>
    /\ backend = <<>>
    /\ line = ""
    /\ request_data = NoRequest
    /\ result = NoDict
    /\ out = <<>>
    /\ errout = <<>>
    /\ exitCode = -1
    /\ loadCalls = 0
    /\ computeCalls = 0
    /\ generic = FALSE
    /\ signalled = FALSE
    /\ startups = 0
    /\ search_results = <<>>
    /\ max_results = 0
    /\ context_parts = <<>>
    /\ context = ""

\* print(json.dumps(d), flush=True)
Emit(d) == Append(out, json_dumps(d))

\* sys.exit(code), or falling off the end of the program with code 0
Exit(code) == pc' = "exited" /\ exitCode' = code

\* The message an exception raised inside the external model library carries.
BackendMsg == "backend error"

----------------------------------------------------------------------------
(* embed_server.py *)

ReadyMessage == "type" :> "s:ready"

LoadErrorMessage ==
    ("type" :> "s:error") @@ ("error" :> ("s:" \o "Failed to load model: " \o BackendMsg))

\* the response of process_request's try block
SuccessResponse(p) ==
    ("type" :> "s:result") @@ ("id" :> get(p, "id", "None"))
    @@ ("embedding" :> "l:[0.1,0.2,0.3]") @@ ("dimensions" :> "i:3")
    @@ ("model" :> ("s:" \o MODEL_NAME))

\* Mutant: the except block answers without the request's id.
ErrorResponse_NullId(p, e) ==
    ("type" :> "s:result") @@ ("id" :> "None") @@ ("error" :> ("s:" \o e))

\* the response of process_request's except block
ErrorResponse(p, e) ==
    ("type" :> "s:result") @@ ("id" :> get(p, "id", "None")) @@ ("error" :> ("s:" \o e))

\* Mutant: a malformed line is answered by the generic handler's message.
InvalidJsonResponse_AsGeneric(e) ==
    ("type" :> "s:result") @@ ("id" :> "None")
    @@ ("error" :> ("s:" \o "Request processing error: " \o e))

\* the response of main's except json.JSONDecodeError block
InvalidJsonResponse(e) ==
    ("type" :> "s:result") @@ ("id" :> "None")
    @@ ("error" :> ("s:" \o "Invalid JSON: " \o e))

\* the response of main's except Exception block
ProcessingErrorResponse(e) ==
    ("type" :> "s:result") @@ ("id" :> "None")
    @@ ("error" :> ("s:" \o "Request processing error: " \o e))

\* Mutant: main goes to the request loop without calling setup_model.
Main_SkipSetup ==
    /\ worker = "embed_server" /\ pc = "main"
    /\ \E argv \in Argvs :
          MODEL_NAME' = IF Len(argv) > 0 THEN argv[1] ELSE MODEL_NAME
    /\ handlers' = TRUE
    /\ pc' = "read"
    /\ UNCHANGED <<worker, tokenizer, model, rag_service, consumed, backend, line,
                   request_data, result, out, errout, exitCode, loadCalls,
                   computeCalls, generic, signalled,
                   startups, fmt>>

\* main, up to the call of setup_model: argv, then the signal handlers
Main ==
    /\ worker = "embed_server" /\ pc = "main"
    /\ \E argv \in Argvs :
          MODEL_NAME' = IF Len(argv) > 0 THEN argv[1] ELSE MODEL_NAME
    /\ handlers' = TRUE
    /\ pc' = "setup"
    /\ UNCHANGED <<worker, tokenizer, model, rag_service, consumed, backend, line,
                   request_data, result, out, errout, exitCode, loadCalls,
                   computeCalls, generic, signalled,
                   startups, fmt>>

\* Mutant: ready is printed before the model is loaded.
setup_model_ReadyFirst ==
    /\ worker = "embed_server" /\ pc = "setup"
    /\ startups' = startups + 1
    /\ loadCalls' = loadCalls + 1
    /\ \E r \in {"ok", "tokenizer", "model", "to"} :
          /\ tokenizer' = IF r = "tokenizer" THEN tokenizer ELSE "loaded"
          /\ model' = IF r \in {"tokenizer", "model"} THEN model ELSE "loaded"
          /\ IF r = "ok"
             THEN /\ out' = Emit(ReadyMessage)
                  /\ pc' = "read"
                  /\ UNCHANGED exitCode
             ELSE /\ out' = Emit(ReadyMessage) \o <<json_dumps(LoadErrorMessage)>>
                  /\ Exit(1)
    /\ UNCHANGED <<worker, handlers, MODEL_NAME, rag_service, consumed, backend, line,
                   request_data, result, errout, computeCalls, generic, signalled, fmt>>

\* setup_model: load tokenizer and model, report ready; any failure is reported
\* and ends the process with code 1
setup_model_body ==
    /\ startups' = startups + 1
    /\ loadCalls' = loadCalls + 1
    /\ \E r \in {"ok", "tokenizer", "model", "to"} :
          /\ tokenizer' = IF r = "tokenizer" THEN tokenizer ELSE "loaded"
          /\ model' = IF r \in {"tokenizer", "model"} THEN model ELSE "loaded"
          /\ IF r = "ok"
             THEN /\ out' = Emit(ReadyMessage)
                  /\ pc' = "read"
                  /\ UNCHANGED exitCode
             ELSE /\ out' = Emit(LoadErrorMessage)
                  /\ Exit(1)
    /\ UNCHANGED <<worker, handlers, MODEL_NAME, rag_service, consumed, backend, line,
                   request_data, result, errout, computeCalls, generic, signalled, fmt>>

\* main's call of setup_model
setup_model ==
    /\ worker = "embed_server" /\ pc = "setup"
    /\ setup_model_body

\* Mutant: a blank line is not skipped.
ReadLine_NoSkip ==
    /\ worker = "embed_server" /\ pc = "read"
    /\ Len(consumed) < MaxLines
    /\ \E l \in Lines :
          /\ consumed' = Append(consumed, l)
          /\ backend' = Append(backend, "none")
          /\ line' = strip(l)
          /\ pc' = "decode"
    /\ UNCHANGED <<worker, handlers, MODEL_NAME, tokenizer, model, rag_service,
                   request_data, result, out, errout, exitCode, loadCalls,
                   computeCalls, generic, signalled,
                   startups, fmt>>

\* for line in sys.stdin: line = line.strip(); if not line: continue
ReadLine ==
    /\ worker = "embed_server" /\ pc = "read"
    /\ Len(consumed) < MaxLines
    /\ \E l \in Lines :
          /\ consumed' = Append(consumed, l)
          /\ backend' = Append(backend, "none")
          /\ line' = strip(l)
          /\ pc' = IF strip(l) = "" THEN "read" ELSE "decode"
    /\ UNCHANGED <<worker, handlers, MODEL_NAME, tokenizer, model, rag_service,
                   request_data, result, out, errout, exitCode, loadCalls,
                   computeCalls, generic, signalled,
                   startups, fmt>>

\* Mutant: running out of input is an abnormal end.
EndOfInput_NonZero ==
    /\ worker = "embed_server" /\ pc = "read"
    /\ Exit(1)
    /\ UNCHANGED <<worker, handlers, MODEL_NAME, tokenizer, model, rag_service, consumed,
                   backend, line, request_data, result, out, errout, loadCalls,
                   computeCalls, generic, signalled,
                   startups, fmt>>

\* sys.stdin is exhausted: the loop ends, main returns
EndOfInput ==
    /\ worker = "embed_server" /\ pc = "read"
    /\ Exit(0)
    /\ UNCHANGED <<worker, handlers, MODEL_NAME, tokenizer, model, rag_service, consumed,
                   backend, line, request_data, result, out, errout, loadCalls,
                   computeCalls, generic, signalled,
                   startups, fmt>>

\* Mutant: a malformed line is answered and then ends the process.
Decode_Fatal ==
    /\ worker = "embed_server" /\ pc = "decode"
    /\ LET p == json_loads(line) IN
          IF p.ok
          THEN /\ request_data' = p
               /\ pc' = "process_request"
               /\ UNCHANGED <<out, exitCode>>
          ELSE /\ out' = Emit(InvalidJsonResponse(p.err))
               /\ Exit(1)
               /\ UNCHANGED request_data
    /\ UNCHANGED <<worker, handlers, MODEL_NAME, tokenizer, model, rag_service, consumed,
                   backend, line, result, errout, loadCalls, computeCalls,
                   generic, signalled,
                   startups, fmt>>

\* request_data = json.loads(line), with main's except json.JSONDecodeError
Decode ==
    /\ worker = "embed_server" /\ pc = "decode"
    /\ LET p == json_loads(line) IN
          IF p.ok
          THEN /\ request_data' = p
               /\ pc' = "process_request"
               /\ UNCHANGED out
          ELSE /\ out' = Emit(InvalidJsonResponse(p.err))
               /\ pc' = "read"
               /\ UNCHANGED request_data
    /\ UNCHANGED <<worker, handlers, MODEL_NAME, tokenizer, model, rag_service, consumed,
                   backend, line, result, errout, exitCode, loadCalls, computeCalls,
                   generic, signalled,
                   startups, fmt>>

\* Mutant: the text is not checked before the backend is called.
process_request_NoCheck ==
    /\ worker = "embed_server" /\ pc = "process_request"
    /\ IF ~HasGet(request_data)
       THEN /\ out' = Emit(ProcessingErrorResponse(AttributeErrorMsg(request_data)))
            /\ generic' = TRUE
            /\ pc' = "read"
       ELSE /\ pc' = "get_embedding"
            /\ UNCHANGED <<out, generic>>
    /\ UNCHANGED <<worker, handlers, MODEL_NAME, tokenizer, model, rag_service, consumed,
                   backend, line, request_data, result, errout, exitCode, loadCalls,
                   computeCalls, signalled,
                   startups, fmt>>

\* process_request up to the call of get_embedding.  On a value without .get the
\* try block raises AttributeError, the except block raises it again at
\* request_data.get("id"), and main's except Exception block answers.
process_request ==
    /\ worker = "embed_server" /\ pc = "process_request"
    /\ IF ~HasGet(request_data)
       THEN /\ out' = Emit(ProcessingErrorResponse(AttributeErrorMsg(request_data)))
            /\ generic' = TRUE
            /\ pc' = "read"
       ELSE IF ~Truthy(get(request_data, "text", "s:"))
       THEN /\ out' = Emit(ErrorResponse(request_data, "No text provided"))
            /\ pc' = "read"
            /\ UNCHANGED generic
       ELSE /\ pc' = "get_embedding"
            /\ UNCHANGED <<out, generic>>
    /\ UNCHANGED <<worker, handlers, MODEL_NAME, tokenizer, model, rag_service, consumed,
                   backend, line, request_data, result, errout, exitCode, loadCalls,
                   computeCalls, signalled,
                   startups, fmt>>

SetLast(s, v) == [s EXCEPT ![Len(s)] = v]

\* Mutant: a backend failure is swallowed and the request gets no response.
get_embedding_Swallow ==
    /\ worker = "embed_server" /\ pc = "get_embedding"
    /\ computeCalls' = computeCalls + 1
    /\ \E r \in {"ok", "fail"} :
          /\ backend' = SetLast(backend, r)
          /\ out' = IF r = "ok" THEN Emit(SuccessResponse(request_data)) ELSE out
    /\ pc' = "read"
    /\ UNCHANGED <<worker, handlers, MODEL_NAME, tokenizer, model, rag_service, consumed,
                   line, request_data, result, errout, exitCode, loadCalls, generic,
                   signalled,
                   startups, fmt>>

\* get_embedding and the rest of process_request: the result, or the error the
\* except block builds from "Embedding generation failed: ..."
get_embedding ==
    /\ worker = "embed_server" /\ pc = "get_embedding"
    /\ computeCalls' = computeCalls + 1
    /\ \E r \in {"ok", "fail"} :
          /\ backend' = SetLast(backend, r)
          /\ out' = IF r = "ok"
                    THEN Emit(SuccessResponse(request_data))
                    ELSE Emit(ErrorResponse(request_data,
                                            "Embedding generation failed: " \o BackendMsg))
    /\ pc' = "read"
    /\ UNCHANGED <<worker, handlers, MODEL_NAME, tokenizer, model, rag_service, consumed,
                   line, request_data, result, errout, exitCode, loadCalls, generic,
                   signalled,
                   startups, fmt>>

----------------------------------------------------------------------------
(* embed.py *)

OneShotResult ==
    ("embedding" :> "l:[0.1,0.2,0.3]") @@ ("dimensions" :> "i:3")
    @@ ("model" :> ("s:" \o MODEL_NAME))

OneShotError(e) == ("error" :> ("s:" \o e)) @@ ("embedding" :> "None")

\* module level: the tokenizer, the model and the pipeline are loaded on import,
\* outside any try block: a failure is an uncaught exception
EmbedImport ==
    /\ worker = "embed" /\ pc = "import"
    /\ startups' = startups + 1
    /\ loadCalls' = loadCalls + 1
    /\ \E r \in {"ok", "tokenizer", "model", "pipeline"} :
          /\ tokenizer' = IF r = "tokenizer" THEN tokenizer ELSE "loaded"
          /\ model' = IF r \in {"tokenizer", "model"} THEN model ELSE "loaded"
          /\ IF r = "ok"
             THEN /\ pc' = "oneshot"
                  /\ UNCHANGED <<errout, exitCode>>
             ELSE /\ errout' = Append(errout, "Traceback (most recent call last):")
                  /\ Exit(1)
    /\ UNCHANGED <<worker, handlers, MODEL_NAME, rag_service, consumed, backend, line,
                   request_data, result, out, computeCalls, generic, signalled, fmt>>

\* Mutant: no fallback to plain text, input that is not JSON carries no text.
OneShotText_JsonOnly(input_data) ==
    LET p == json_loads(input_data) IN
    IF p.ok THEN get(p, "text", "s:") ELSE "s:"

\* the text of the one-shot request: the "text" member of a JSON document, or
\* the whole input when it is not JSON
OneShotText(input_data) ==
    LET p == json_loads(input_data) IN
    IF p.ok THEN get(p, "text", "s:") ELSE "s:" \o input_data

\* __main__ up to the call of get_embedding
EmbedRead ==
    /\ worker = "embed" /\ pc = "oneshot"
    /\ \E doc \in EmbedDocs :
          LET input_data == strip(doc)
              p == json_loads(input_data)
          IN  /\ consumed' = <<doc>>
              /\ backend' = <<"none">>
              /\ line' = input_data
              /\ request_data' = p
              /\ IF p.ok /\ ~HasGet(p)
                 THEN /\ out' = Emit(OneShotError(AttributeErrorMsg(p)))
                      /\ Exit(1)
                 ELSE IF ~Truthy(OneShotText(input_data))
                 THEN /\ out' = Emit(OneShotError("No text provided"))
                      /\ Exit(1)
                 ELSE /\ pc' = "oneshot_embedding"
                      /\ UNCHANGED <<out, exitCode>>
    /\ UNCHANGED <<worker, handlers, MODEL_NAME, tokenizer, model, rag_service, result,
                   errout, loadCalls, computeCalls, generic, signalled,
                   startups, fmt>>

\* get_embedding and the rest of __main__
EmbedCompute ==
    /\ worker = "embed" /\ pc = "oneshot_embedding"
    /\ computeCalls' = computeCalls + 1
    /\ \E r \in {"ok", "fail"} :
          /\ backend' = SetLast(backend, r)
          /\ IF r = "ok"
             THEN out' = Emit(OneShotResult) /\ Exit(0)
             ELSE out' = Emit(OneShotError(BackendMsg)) /\ Exit(1)
    /\ UNCHANGED <<worker, handlers, MODEL_NAME, tokenizer, model, rag_service, consumed,
                   line, request_data, result, errout, loadCalls, generic, signalled,
                   startups, fmt>>

----------------------------------------------------------------------------
(* llm_rag.py *)

\* rag_service.model_name if rag_service else "unknown"
ServiceModelName(svc) == IF svc = "None" THEN "s:unknown" ELSE "s:" \o svc

RagError(e, svc) ==
    ("success" :> "b:False") @@ ("error" :> ("s:" \o e)) @@ ("model" :> ServiceModelName(svc))

RagSuccess(svc) ==
    ("success" :> "b:True") @@ ("explanation" :> "s:explanation")
    @@ ("model" :> ServiceModelName(svc)) @@ ("device" :> "s:cpu")

StatusLoading == "{\"type\": \"status\", \"message\": \"Loading ...\"}"
StatusLoaded == "{\"type\": \"status\", \"message\": \"Model loaded successfully\"}"

\* main: the signal handlers
RagMain ==
    /\ worker = "llm_rag" /\ pc = "main"
    /\ handlers' = TRUE
    /\ pc' = "rag_read"
    /\ UNCHANGED <<worker, MODEL_NAME, tokenizer, model, rag_service, consumed, backend,
                   line, request_data, result, out, errout, exitCode, loadCalls,
                   computeCalls, generic, signalled,
                   startups, fmt>>

\* input_data = json.loads(sys.stdin.read()), with main's except
\* json.JSONDecodeError
RagRead ==
    /\ worker = "llm_rag" /\ pc = "rag_read"
    /\ \E doc \in RagDocs :
          LET p == json_loads(doc) IN
              /\ consumed' = <<doc>>
              /\ backend' = <<"none">>
              /\ IF p.ok
                 THEN /\ request_data' = p
                      /\ pc' = "rag_process"
                      /\ UNCHANGED <<out, exitCode>>
                 ELSE /\ out' = Emit(RagError("Invalid JSON input: " \o p.err, "None"))
                      /\ Exit(1)
                      /\ UNCHANGED request_data
    /\ UNCHANGED <<worker, handlers, MODEL_NAME, tokenizer, model, rag_service, line,
                   result, errout, loadCalls, computeCalls, generic, signalled,
                   startups, fmt>>

\* sys.stdin.read() raises (stdin is not valid text): main's except Exception
RagReadFails ==
    /\ worker = "llm_rag" /\ pc = "rag_read"
    /\ out' = Emit(RagError("Unexpected error: " \o "'utf-8' codec can't decode byte",
                            rag_service))
    /\ Exit(1)
    /\ UNCHANGED <<worker, handlers, MODEL_NAME, tokenizer, model, rag_service, consumed,
                   backend, line, request_data, result, errout, loadCalls, computeCalls,
                   generic, signalled,
                   startups, fmt>>

\* Mutant: the search results are checked before the query.
RagValidate_ResultsFirst ==
    /\ worker = "llm_rag" /\ pc = "rag_process"
    /\ IF ~HasGet(request_data)
       THEN /\ result' = RagError(AttributeErrorMsg(request_data), rag_service)
            /\ pc' = "rag_print"
       ELSE IF ~Truthy(get(request_data, "search_results", "l:[]"))
       THEN /\ result' = RagError("No search results provided", rag_service)
            /\ pc' = "rag_print"
       ELSE IF ~Truthy(get(request_data, "query", "s:"))
       THEN /\ result' = RagError("Query is required", rag_service)
            /\ pc' = "rag_print"
       ELSE /\ pc' = "rag_init"
            /\ UNCHANGED result
    /\ UNCHANGED <<worker, handlers, MODEL_NAME, tokenizer, model, rag_service, consumed,
                   backend, line, request_data, out, errout, exitCode, loadCalls,
                   computeCalls, generic, signalled,
                   startups, fmt>>

\* Mutant: the search results are not checked before the service is used.
RagValidate_QueryOnly ==
    /\ worker = "llm_rag" /\ pc = "rag_process"
    /\ IF ~HasGet(request_data)
       THEN /\ result' = RagError(AttributeErrorMsg(request_data), rag_service)
            /\ pc' = "rag_print"
       ELSE IF ~Truthy(get(request_data, "query", "s:"))
       THEN /\ result' = RagError("Query is required", rag_service)
            /\ pc' = "rag_print"
       ELSE /\ pc' = "rag_init"
            /\ UNCHANGED result
    /\ UNCHANGED <<worker, handlers, MODEL_NAME, tokenizer, model, rag_service, consumed,
                   backend, line, request_data, out, errout, exitCode, loadCalls,
                   computeCalls, generic, signalled,
                   startups, fmt>>

\* process_request: the two validations.  .get on a value that is no dict raises
\* inside the try block; the except block returns it as an error result.
RagValidate ==
    /\ worker = "llm_rag" /\ pc = "rag_process"
    /\ IF ~HasGet(request_data)
       THEN /\ result' = RagError(AttributeErrorMsg(request_data), rag_service)
            /\ pc' = "rag_print"
       ELSE IF ~Truthy(get(request_data, "query", "s:"))
       THEN /\ result' = RagError("Query is required", rag_service)
            /\ pc' = "rag_print"
       ELSE IF ~Truthy(get(request_data, "search_results", "l:[]"))
       THEN /\ result' = RagError("No search results provided", rag_service)
            /\ pc' = "rag_print"
       ELSE /\ pc' = "rag_init"
            /\ UNCHANGED result
    /\ UNCHANGED <<worker, handlers, MODEL_NAME, tokenizer, model, rag_service, consumed,
                   backend, line, request_data, out, errout, exitCode, loadCalls,
                   computeCalls, generic, signalled,
                   startups, fmt>>

\* process_request: "Initialize service if needed": the service is constructed
\* and CodeRAGService.load_model runs; its RuntimeError becomes an error result
RagInit ==
    /\ worker = "llm_rag" /\ pc = "rag_init"
    /\ IF rag_service # "None"
       THEN /\ pc' = "rag_generate"
            /\ UNCHANGED <<rag_service, tokenizer, model, errout, loadCalls, result,
                           startups>>
       ELSE LET name == Body(get(request_data, "model", "s:" \o DefaultRagModel)) IN
            /\ rag_service' = name
            /\ startups' = startups + 1
            /\ loadCalls' = loadCalls + 1
            /\ \E r \in {"ok", "tokenizer", "model", "to"} :
                  /\ tokenizer' = IF r = "tokenizer" THEN tokenizer ELSE "loaded"
                  /\ model' = IF r \in {"tokenizer", "model"} THEN model ELSE "loaded"
                  /\ IF r = "ok"
                     THEN /\ errout' = errout \o <<StatusLoading, StatusLoaded>>
                          /\ pc' = "rag_generate"
                          /\ UNCHANGED result
                     ELSE /\ errout' = Append(errout, StatusLoading)
                          /\ result' = RagError("Failed to load model: " \o BackendMsg, name)
                          /\ pc' = "rag_print"
    /\ UNCHANGED <<worker, handlers, MODEL_NAME, consumed, backend, line, request_data,
                   out, exitCode, computeCalls, generic, signalled, fmt>>

\* str(n) of a natural number
Digit(d) == SubSeq("0123456789", d + 1, d + 1)
RECURSIVE ToStr(_)
ToStr(n) == IF n < 10 THEN Digit(n) ELSE ToStr(n \div 10) \o Digit(n % 10)

\* format(similarity, ".1%"), the similarity held in tenths of a percent
FormatPercent(x) == ToStr(x \div 10) \o "." \o Digit(x % 10) \o "%"

\* file_path.split('/')[-1]
RECURSIVE LastSegment(_, _)
LastSegment(s, i) ==
    IF i = 0 THEN s
    ELSE IF SubSeq(s, i, i) = "/" THEN SubSeq(s, i + 1, Len(s))
    ELSE LastSegment(s, i - 1)
basename(file_path) == LastSegment(file_path, Len(file_path))

\* result.get(k, default) on one search result
rget(r, k, default) == IF k \in DOMAIN r THEN r[k] ELSE default

\* format_search_context's limits
MaxSourceChars == 600
DefaultMaxResults == 8

\* Mutant: a text of exactly the limit is cut too.
Truncate_AtLimit(source_text) ==
    IF Len(source_text) >= MaxSourceChars
    THEN SubSeq(source_text, 1, MaxSourceChars) \o "..."
    ELSE source_text

\* "Truncate very long source text but keep it readable"
Truncate(source_text) ==
    IF Len(source_text) > MaxSourceChars
    THEN SubSeq(source_text, 1, MaxSourceChars) \o "..."
    ELSE source_text

\* the heading of the i-th block, up to the source text
BlockHeader(i, r) ==
    "\nCode Snippet " \o ToStr(i)
    \o " (Relevance: " \o FormatPercent(rget(r, "similarity", 0))
    \o ") from " \o basename(rget(r, "file_path", "Unknown file")) \o ":\n"

\* the f-string appended to context_parts for the i-th result
Block(i, r) ==
    BlockHeader(i, r) \o Truncate(rget(r, "source_text", "No source available")) \o "\n"

\* Mutant: the cap keeps the last max_results results, not the first.
FormatBlocks_Last(results, cap) ==
    LET n == Len(results)
        shown == SubSeq(results, IF cap < n THEN n - cap + 1 ELSE 1, n)
    IN  [i \in 1..Len(shown) |-> Block(i, shown[i])]

\* the loop over enumerate(search_results[:max_results], 1)
FormatBlocks(results, cap) ==
    LET shown == SubSeq(results, 1, IF cap < Len(results) THEN cap ELSE Len(results))
    IN  [i \in 1..Len(shown) |-> Block(i, shown[i])]

\* "\n".join(parts)
RECURSIVE Join(_)
Join(parts) ==
    IF parts = <<>> THEN ""
    ELSE IF Len(parts) = 1 THEN parts[1]
    ELSE parts[1] \o "\n" \o Join(Tail(parts))

NoResultsSentinel == "No search results provided."

format_search_context(results, cap) ==
    IF results = <<>> THEN NoResultsSentinel ELSE Join(FormatBlocks(results, cap))

\* the search_results list of the request, decoded
SearchResultsOf(v) ==
    IF v = OneResult
    THEN <<[file_path |-> "src/a.py", similarity |-> 900, source_text |-> "x"]>>
    ELSE <<>>

\* CodeRAGService.generate_explanation, and process_request's return.  Without a
\* model or a tokenizer it calls load_model first, which returns at once when
\* the model is there and loads otherwise; a missing tokenizer then fails the
\* call before the model is ever run.
RagGenerate ==
    /\ worker = "llm_rag" /\ pc = "rag_generate"
    /\ LET needLoad == model = "None" \/ tokenizer = "None"
           loads == needLoad /\ model = "None"
       IN  /\ startups' = IF needLoad THEN startups + 1 ELSE startups
           /\ loadCalls' = IF loads THEN loadCalls + 1 ELSE loadCalls
           /\ \E l \in IF loads THEN {"ok", "tokenizer", "model", "to"} ELSE {"skip"} :
                 /\ IF l \in {"skip", "ok"}
                    THEN LET given == SearchResultsOf(get(request_data, "search_results",
                                                         "l:[]"))
                         IN  /\ search_results' = given
                             /\ max_results' = DefaultMaxResults
                             /\ context_parts' =
                                   IF given = <<>> THEN <<>>
                                   ELSE FormatBlocks(given, DefaultMaxResults)
                             /\ context' = format_search_context(given, DefaultMaxResults)
                    ELSE UNCHANGED fmt
                 /\ tokenizer' = IF l \in {"skip", "tokenizer"} THEN tokenizer ELSE "loaded"
                 /\ model' = IF l \in {"skip", "tokenizer", "model"} THEN model ELSE "loaded"
                 /\ errout' = CASE l = "skip" -> errout
                                [] l = "ok" -> errout \o <<StatusLoading, StatusLoaded>>
                                [] OTHER -> Append(errout, StatusLoading)
                 /\ IF l \notin {"skip", "ok"}
                    THEN /\ result' = RagError("Failed to load model: " \o BackendMsg,
                                               rag_service)
                         /\ UNCHANGED <<backend, computeCalls>>
                    ELSE IF tokenizer' = "None"
                    THEN /\ result' = RagError("'NoneType' object is not callable",
                                               rag_service)
                         /\ UNCHANGED <<backend, computeCalls>>
                    ELSE /\ computeCalls' = computeCalls + 1
                         /\ \E r \in {"ok", "fail"} :
                               /\ backend' = SetLast(backend, r)
                               /\ result' =
                                     IF r = "ok"
                                     THEN RagSuccess(rag_service)
                                     ELSE RagError("Generation failed: " \o BackendMsg,
                                                   rag_service)
    /\ pc' = "rag_print"
    /\ UNCHANGED <<worker, handlers, MODEL_NAME, rag_service, consumed, line,
                   request_data, out, exitCode, generic, signalled>>

\* Mutant: main exits with code 1 when the result it printed is an error.
RagPrint_ExitByResult ==
    /\ worker = "llm_rag" /\ pc = "rag_print"
    /\ out' = Emit(result)
    /\ Exit(IF result["success"] = "b:True" THEN 0 ELSE 1)
    /\ UNCHANGED <<worker, handlers, MODEL_NAME, tokenizer, model, rag_service, consumed,
                   backend, line, request_data, result, errout, loadCalls, computeCalls,
                   generic, signalled,
                   startups, fmt>>

\* main: print(json.dumps(result), flush=True), then main returns
RagPrint ==
    /\ worker = "llm_rag" /\ pc = "rag_print"
    /\ out' = Emit(result)
    /\ Exit(0)
    /\ UNCHANGED <<worker, handlers, MODEL_NAME, tokenizer, model, rag_service, consumed,
                   backend, line, request_data, result, errout, loadCalls, computeCalls,
                   generic, signalled,
                   startups, fmt>>

----------------------------------------------------------------------------
(* Signals *)

ShutdownMessage == "type" :> "s:shutdown"

\* Mutant: a signal that arrives during setup_model is caught there like a
\* failed load.
signal_handler_CaughtInSetup ==
    /\ handlers /\ pc # "exited"
    /\ signalled' = TRUE
    /\ IF worker = "embed_server" /\ pc = "setup"
       THEN out' = Emit(LoadErrorMessage) /\ Exit(1)
       ELSE /\ out' = IF worker = "llm_rag" THEN Emit(ShutdownMessage) ELSE out
            /\ Exit(0)
    /\ UNCHANGED <<worker, handlers, MODEL_NAME, tokenizer, model, rag_service, consumed,
                   backend, line, request_data, result, errout, loadCalls, computeCalls,
                   generic,
                   startups, fmt>>

\* SIGINT or SIGTERM is delivered while the process runs with signal_handler
\* installed: the handler raises SystemExit(0), which no except clause of either
\* program catches
signal_handler ==
    /\ handlers /\ pc # "exited"
    /\ signalled' = TRUE
    /\ out' = IF worker = "llm_rag" THEN Emit(ShutdownMessage) ELSE out
    /\ Exit(0)
    /\ UNCHANGED <<worker, handlers, MODEL_NAME, tokenizer, model, rag_service, consumed,
                   backend, line, request_data, result, errout, loadCalls, computeCalls,
                   generic,
                   startups, fmt>>

----------------------------------------------------------------------------

Next ==
    \/ Main
    \/ setup_model
    \/ ReadLine
    \/ EndOfInput
    \/ Decode
    \/ process_request
    \/ get_embedding
    \/ EmbedImport
    \/ EmbedRead
    \/ EmbedCompute
    \/ RagMain
    \/ RagRead
    \/ RagReadFails
    \/ RagValidate
    \/ RagInit
    \/ RagGenerate
    \/ RagPrint
    \/ signal_handler

Spec == Init /\ [][Next]_vars

----------------------------------------------------------------------------
(* Progress: the process keeps executing its own code *)

\* How many lines stdin holds when progress is checked.
MaxLiveLines == 3

\* "for line in sys.stdin" on a stdin of at most MaxLiveLines lines
ReadLineLive ==
    /\ Len(consumed) < MaxLiveLines
    /\ ReadLine

\* The steps of the program itself; a signal is the environment's step.
Program ==
    \/ Main
    \/ setup_model
    \/ ReadLineLive
    \/ EndOfInput
    \/ Decode
    \/ process_request
    \/ get_embedding
    \/ EmbedImport
    \/ EmbedRead
    \/ EmbedCompute
    \/ RagMain
    \/ RagRead
    \/ RagReadFails
    \/ RagValidate
    \/ RagInit
    \/ RagGenerate
    \/ RagPrint

NextLive ==
    \/ Program
    \/ signal_handler

\* The interpreter runs the program's next statement as long as there is one,
\* and every call into the backend returns.
SpecLive == Init /\ [][NextLive]_vars /\ WF_vars(Program)

----------------------------------------------------------------------------
(* format_search_context on its own, for lists of any length *)

\* The longest list of search results, and the largest cap besides the default.
MaxResults == 10
MaxCap == 3

\* A source text of the given length, no two neighbouring characters alike.
Chunk == "0123456789abcdefghijklmnopqrstuvwxyzABCDEFGHIJKLMNOPQRSTUVWXYZ#$"
Chunk512 == Chunk \o Chunk \o Chunk \o Chunk \o Chunk \o Chunk \o Chunk \o Chunk
Text(n) == SubSeq(Chunk512 \o Chunk512, 1, n)
TextLens == {MaxSourceChars - 1, MaxSourceChars, MaxSourceChars + 1, MaxSourceChars + 100}

\* The i-th search result; the one at position long carries a text of length n.
\* The similarities are in no order.
SearchResult(i, long, n) ==
    [file_path |-> "src/pkg/f" \o ToStr(i) \o ".py",
     node_type |-> "function",
     similarity |-> (i * 373) % 1001,
     source_text |-> IF i = long THEN Text(n) ELSE "code " \o ToStr(i)]

SearchResultLists ==
    {[i \in 1..k |-> SearchResult(i, long, n)] :
        k \in 0..MaxResults, long \in 0..MaxResults, n \in TextLens}

Caps == (0..MaxCap) \cup {DefaultMaxResults}

FormatInit ==
    /\ worker = "llm_rag"
    /\ pc = "format"
    /\ handlers = FALSE
    /\ MODEL_NAME = ""
    /\ tokenizer = "loaded"
    /\ model = "loaded"
    /\ rag_service = DefaultRagModel
    /\ consumed = <<>>
    /\ backend = <<>>
    /\ line = ""
    /\ request_data = NoRequest
    /\ result = NoDict
    /\ out = <<>>
    /\ errout = <<>>
    /\ exitCode = -1
    /\ loadCalls = 1
    /\ computeCalls = 0
    /\ generic = FALSE
    /\ signalled = FALSE
    /\ startups = 1
    /\ search_results \in SearchResultLists
    /\ max_results \in Caps
    /\ context_parts = <<>>
    /\ context = ""

\* CodeRAGService.format_search_context(search_results, max_results)
FormatCall ==
    /\ pc = "format"
    /\ context_parts' = IF search_results = <<>> THEN <<>>
                        ELSE FormatBlocks(search_results, max_results)
    /\ context' = format_search_context(search_results, max_results)
    /\ pc' = "formatted"
    /\ UNCHANGED <<worker, handlers, MODEL_NAME, tokenizer, model, rag_service, consumed,
                   backend, line, request_data, result, out, errout, exitCode, loadCalls,
                   computeCalls, generic, signalled, startups, search_results,
                   max_results>>

SpecFormat == FormatInit /\ [][FormatCall]_vars

----------------------------------------------------------------------------
(* The startup path entered a second time *)

\* How many times a caller enters the startup path in one process lifetime.
MaxStartups == 2

\* setup_model() called again, right after it returned
setup_model_again ==
    /\ worker = "embed_server" /\ pc = "read" /\ consumed = <<>>
    /\ startups >= 1 /\ startups < MaxStartups
    /\ setup_model_body

\* CodeRAGService.load_model() called again on the service process_request
\* made: "if self.model is not None: return"
load_model_again ==
    /\ worker = "llm_rag" /\ pc = "rag_generate"
    /\ startups >= 1 /\ startups < MaxStartups
    /\ startups' = startups + 1
    /\ IF model # "None"
       THEN UNCHANGED <<tokenizer, model, errout, loadCalls, result, pc>>
       ELSE /\ loadCalls' = loadCalls + 1
            /\ \E r \in {"ok", "tokenizer", "model", "to"} :
                  /\ tokenizer' = IF r = "tokenizer" THEN tokenizer ELSE "loaded"
                  /\ model' = IF r \in {"tokenizer", "model"} THEN model ELSE "loaded"
                  /\ IF r = "ok"
                     THEN /\ errout' = errout \o <<StatusLoading, StatusLoaded>>
                          /\ UNCHANGED <<result, pc>>
                     ELSE /\ errout' = Append(errout, StatusLoading)
                          /\ result' = RagError("Failed to load model: " \o BackendMsg,
                                                rag_service)
                          /\ pc' = "rag_print"
    /\ UNCHANGED <<worker, handlers, MODEL_NAME, rag_service, consumed, backend, line,
                   request_data, out, exitCode, computeCalls, generic, signalled, fmt>>

NextStartup ==
    \/ Next
    \/ setup_model_again
    \/ load_model_again

\* The programs, with a caller that may enter the startup path once more.
SpecStartup == Init /\ [][NextStartup]_vars

----------------------------------------------------------------------------
(* Vocabulary of the properties *)

Has(m, k) == k \in DOMAIN m
IsReady(m) == Has(m, "type") /\ m["type"] = "\"ready\""
IsErrorTyped(m) == Has(m, "type") /\ m["type"] = "\"error\""
IsResult(m) == Has(m, "type") /\ m["type"] = "\"result\""
IsSuccess(m) == IsResult(m) /\ Has(m, "embedding") /\ ~Has(m, "error")
IsError(m) == IsResult(m) /\ Has(m, "error") /\ ~Has(m, "embedding")
IsRagResult(m) == Has(m, "success")

RECURSIVE Contains(_, _)
Contains(s, sub) ==
    /\ Len(s) >= Len(sub)
    /\ \/ SubSeq(s, 1, Len(sub)) = sub
       \/ Contains(SubSeq(s, 2, Len(s)), sub)

Count(seq, Test(_)) == Len(SelectSeq(seq, Test))

\* The lines that are empty after trimming, and the rest: the requests.
BlankLines == {LSpaces}
IsRequestLine(l) == l \notin BlankLines
Requests == SelectSeq(consumed, IsRequestLine)

\* The streaming worker's stdout after its first line.
Responses == IF out = <<>> THEN <<>> ELSE Tail(out)

\* A line has been read and its response is still to come.
InFlight == pc \in {"decode", "process_request", "get_embedding"}

\* The backend outcome recorded for the k-th request line.
RECURSIVE RequestIndex(_, _)
RequestIndex(k, upto) ==
    IF Len(SelectSeq(SubSeq(consumed, 1, upto), IsRequestLine)) = k /\ IsRequestLine(consumed[upto])
    THEN upto
    ELSE RequestIndex(k, upto + 1)
OutcomeOf(k) == backend[RequestIndex(k, 1)]

\* The lines that decode to a JSON object, and the id they carry on the wire.
ObjectLines == {LEmptyText, LNoText, LReq1, LReq2, LReqA}
WellFormedLines == {LReq1, LReq2, LReqA}
MissingTextLines == {LEmptyText, LNoText}
WireId(l) ==
    CASE l = LReq1 -> "1"
      [] l = LReq2 -> "2"
      [] l \in {LNoText, LReqA} -> "\"a\""
      [] OTHER -> "null"

Streaming == worker = "embed_server"
Loaded == tokenizer = "loaded" /\ model = "loaded"

----------------------------------------------------------------------------
(* Properties *)

\* C1: in the streaming worker, once initialization succeeded and as long as no
\* signal ends the process, stdout holds the ready line and exactly one further
\* line per request line read and answered: blank lines add none, the line in
\* flight has none yet, and every other line read has one, whatever the lines.
C1_OneResponsePerLine ==
    (Streaming /\ ~signalled /\ out # <<>> /\ IsReady(out[1])) =>
        /\ Len(Responses) = Len(Requests) - (IF InFlight THEN 1 ELSE 0)
        /\ \A k \in 1..Len(Responses) : IsSuccess(Responses[k]) \/ IsError(Responses[k])

\* C1 witness: a blank line, a malformed line and a non-object line were read
\* and the worker is back at the loop head with two responses.
C1_Witness ==
    /\ Streaming /\ pc = "read"
    /\ consumed = <<LSpaces, LBad, LNum>>
    /\ Len(Responses) = 2

\* The lines read so far are well-formed requests with pairwise distinct ids.
C2_Distinct ==
    /\ \A i \in 1..Len(consumed) : consumed[i] \in WellFormedLines
    /\ \A i, j \in 1..Len(consumed) : i # j => WireId(consumed[i]) # WireId(consumed[j])

\* The responses so far answer the lines read so far, one to one and in order.
C2_Ordered ==
    /\ Len(Responses) <= Len(consumed)
    /\ \A k \in 1..Len(Responses) :
          IsResult(Responses[k]) /\ Responses[k]["id"] = WireId(consumed[k])
    /\ (~signalled) => Len(Responses) = Len(consumed) - (IF InFlight THEN 1 ELSE 0)

\* C2: when the lines read are well-formed requests with distinct ids, there is
\* one response per answered request, the k-th response echoes the k-th
\* request's id, and a line is read only when every earlier line has its response.
C2_OrderPreserved ==
    /\ []((Streaming /\ C2_Distinct) => C2_Ordered)
    /\ [][(Streaming /\ consumed' # consumed /\ C2_Distinct')
            => Len(Responses) = Len(consumed)]_vars

\* C2 witness: three well-formed requests with distinct ids, answered in order.
C2_Witness ==
    /\ Streaming /\ pc = "read"
    /\ consumed = <<LReq2, LReqA, LReq1>>
    /\ Len(Responses) = 3
    /\ Responses[1]["id"] = "2" /\ Responses[2]["id"] = "\"a\"" /\ Responses[3]["id"] = "1"

\* What a fresh worker answers to a request line, given the outcome of the
\* backend call it makes.
FreshKind(l, outcome) ==
    CASE l \in WellFormedLines /\ outcome = "ok" -> "success"
      [] OTHER -> "error"
FreshId(l) == IF l \in ObjectLines THEN WireId(l) ELSE "null"

\* Every response so far is the fresh worker's answer to its line.
C3_AnsweredAsFresh ==
    \A k \in 1..Len(Responses) :
        /\ k <= Len(Requests)
        /\ IsResult(Responses[k])
        /\ Responses[k]["id"] = FreshId(Requests[k])
        /\ IF FreshKind(Requests[k], OutcomeOf(k)) = "success"
           THEN IsSuccess(Responses[k])
           ELSE IsError(Responses[k])

\* C3: in the streaming worker every response is the one a fresh worker gives to
\* that line, whatever came before; handling a line, failing or not, leaves the
\* tokenizer, the model and the model name as they were, adds at most one line
\* to stdout, and ends the process only if a signal arrives.
C3_Isolation ==
    /\ [](Streaming => C3_AnsweredAsFresh)
    /\ [][(Streaming /\ InFlight) =>
            /\ UNCHANGED <<tokenizer, model, MODEL_NAME>>
            /\ Len(out') <= Len(out) + 1
            /\ (signalled' \/ (exitCode' = -1 /\ (pc' = "read" \/ InFlight')))]_vars

\* C3 witness: valid(id=1), malformed, valid(id=2) gave success(1), error(null),
\* success(2), and the worker has taken a fourth line.
C3_Witness ==
    /\ Streaming /\ exitCode = -1 /\ Len(consumed) = 4
    /\ SubSeq(consumed, 1, 3) = <<LReq1, LBad, LReq2>>
    /\ Len(Responses) >= 3
    /\ IsSuccess(Responses[1]) /\ Responses[1]["id"] = "1"
    /\ IsError(Responses[2]) /\ Responses[2]["id"] = "null"
    /\ IsSuccess(Responses[3]) /\ Responses[3]["id"] = "2"

\* C4: in the streaming worker the response to a malformed-JSON line is an error
\* result with id null whose message starts with "Invalid JSON: ", wherever the
\* line stands in the input.
C4_InvalidJson ==
    Streaming =>
        \A k \in 1..Len(Responses) :
            (k <= Len(Requests) /\ Requests[k] = LBad) =>
                /\ IsError(Responses[k])
                /\ Responses[k]["id"] = "null"
                /\ StartsWith(Responses[k]["error"], "\"Invalid JSON: ")

\* C4 witness: a malformed line answered after a valid and an invalid line.
C4_Witness ==
    /\ Streaming /\ pc = "read"
    /\ consumed = <<LReq1, LNum, LBad>>
    /\ Len(Responses) = 3
    /\ StartsWith(Responses[3]["error"], "\"Invalid JSON: ")

\* The requests without their content field, per worker.
MissingQueryDocs == {DNoQuery, DEmptyQuery}
MissingTextDocs == {DEmpty, DEmbedEmptyText}
IsCalled(o) == o # "none"

C5_Streaming ==
    \A k \in 1..Len(Requests) :
        Requests[k] \in MissingTextLines =>
            /\ OutcomeOf(k) = "none"
            /\ ~(k = Len(Requests) /\ pc = "get_embedding")
            /\ k <= Len(Responses) =>
                  /\ IsError(Responses[k])
                  /\ Responses[k]["error"] = "\"No text provided\""
                  /\ Contains(Responses[k]["error"], "text")

C5_OneShot ==
    (consumed # <<>> /\ consumed[1] \in MissingTextDocs) =>
        /\ computeCalls = 0 /\ pc # "oneshot_embedding"
        /\ pc = "exited" =>
              /\ Len(out) = 1
              /\ out[1]["error"] = "\"No text provided\""
              /\ Contains(out[1]["error"], "text")

C5_Rag ==
    (consumed # <<>> /\ consumed[1] \in MissingQueryDocs) =>
        /\ computeCalls = 0 /\ pc \notin {"rag_init", "rag_generate"}
        /\ \A i \in 1..Len(out) :
              IsRagResult(out[i]) =>
                  /\ out[i]["success"] = "false"
                  /\ out[i]["error"] = "\"Query is required\""
                  /\ Contains(out[i]["error"], "Query")
        /\ (pc = "exited" /\ ~signalled) => Len(out) = 1

\* C5: a request whose content field is missing or empty is answered with an
\* error that names the field, and the backend is not called for it (the call
\* counter counts exactly the requests that reached the backend): the streaming
\* worker and the one-shot script on "text", the RAG worker on "query".
C5_MissingField ==
    /\ computeCalls = Count(backend, IsCalled)
    /\ Streaming => C5_Streaming
    /\ worker = "embed" => C5_OneShot
    /\ worker = "llm_rag" => C5_Rag

\* C5 witness: a request without text and one with empty text were answered
\* after a served request; the backend was called once.
C5_Witness ==
    /\ Streaming /\ pc = "read"
    /\ consumed = <<LReq1, LNoText, LEmptyText>>
    /\ Len(Responses) = 3
    /\ computeCalls = 1

\* C6: in the streaming worker the response to a line that decodes to a JSON
\* object carries the request's id as sent, and null when it has none, on the
\* success path and on the error paths alike.
C6_IdEchoed ==
    Streaming =>
        \A k \in 1..Len(Responses) :
            (k <= Len(Requests) /\ Requests[k] \in ObjectLines) =>
                /\ IsResult(Responses[k])
                /\ Responses[k]["id"] = WireId(Requests[k])

\* C6 witness: an error for a missing text with id "a", an error for an empty
\* text without id, and a backend failure with id "a".
C6_Witness ==
    /\ Streaming /\ pc = "read"
    /\ consumed = <<LNoText, LEmptyText, LReqA>>
    /\ backend = <<"none", "none", "fail">>
    /\ Len(Responses) = 3
    /\ Responses[1]["id"] = "\"a\"" /\ Responses[2]["id"] = "null"
    /\ IsError(Responses[3]) /\ Responses[3]["id"] = "\"a\""

\* C7: process_request returns normally for every decoded value, so that the
\* server loop's generic exception handler never runs and no response carries
\* its "Request processing error: " message.
C7_NeverGeneric ==
    /\ ~generic
    /\ \A i \in 1..Len(out) :
          (IsResult(out[i]) /\ Has(out[i], "error")) =>
              ~StartsWith(out[i]["error"], "\"Request processing error: ")

\* C8: in the streaming worker ready is printed at most once and only as the
\* first line, with tokenizer and model loaded; it has been printed once the
\* request loop runs; a result is never printed without it; and when the load
\* failure is reported, ready is not printed at all.
C8_ReadyOnce ==
    Streaming =>
        /\ Count(out, IsReady) <= 1
        /\ \A i \in 1..Len(out) : IsReady(out[i]) => (i = 1 /\ Loaded)
        /\ (pc = "read" \/ InFlight) => Count(out, IsReady) = 1
        /\ (\E i \in 1..Len(out) : IsResult(out[i])) => IsReady(out[1])
        /\ (\E i \in 1..Len(out) : IsErrorTyped(out[i])) => Count(out, IsReady) = 0

\* C8 witness: the worker ended at end-of-input after ready and two results.
C8_Witness ==
    /\ Streaming /\ pc = "exited" /\ exitCode = 0 /\ ~signalled
    /\ Len(out) = 3 /\ IsReady(out[1]) /\ IsResult(out[2]) /\ IsResult(out[3])

\* The backend is loaded (and, in the streaming worker, ready was reported).
Initialized == Loaded /\ (Streaming => (out # <<>> /\ IsReady(out[1])))
IsAnyResult(m) == IsResult(m) \/ IsRagResult(m) \/ Has(m, "embedding")

\* C9, as claimed: the backend compute runs only with the backend loaded, and
\* no worker prints a result while it is not loaded.
C9_Original ==
    /\ computeCalls > 0 => Initialized
    /\ pc \in {"get_embedding", "oneshot_embedding"} => Initialized
    /\ (\E i \in 1..Len(out) : IsAnyResult(out[i])) => Initialized

IsRagSuccess(m) == IsRagResult(m) /\ m["success"] = "true"

\* C9, amended: the backend compute runs only with the backend loaded; the
\* embedding workers print no result, and the RAG worker no success result,
\* while the backend is not loaded.
C9_Amended ==
    /\ computeCalls > 0 => Initialized
    /\ pc \in {"get_embedding", "oneshot_embedding"} => Initialized
    /\ (worker # "llm_rag" /\ \E i \in 1..Len(out) : IsAnyResult(out[i])) => Initialized
    /\ (worker = "llm_rag" /\ \E i \in 1..Len(out) : IsRagSuccess(out[i])) => Initialized

\* C9 witness: the RAG worker loaded its model, generated and printed a success.
C9_Witness ==
    /\ worker = "llm_rag" /\ pc = "exited"
    /\ computeCalls = 1 /\ Loaded
    /\ Len(out) = 1 /\ IsRagSuccess(out[1])

\* The reports of a load failure: the streaming worker's error message, the RAG
\* worker's "Failed to load model" result, the one-shot script's traceback.
IsLoadReport(m) ==
    \/ IsErrorTyped(m)
    \/ (IsRagResult(m) /\ Has(m, "error") /\ StartsWith(m["error"], "\"Failed to load model: "))
IsTraceback(l) == StartsWith(l, "Traceback")
LoadReports == Count(out, IsLoadReport) + Count(errout, IsTraceback)

\* C10: when loading the backend fails, every worker reports it exactly once,
\* ends with a nonzero exit code, and never calls the backend compute.
C10_InitFailureFatal ==
    (pc = "exited" /\ ~signalled /\ loadCalls > 0 /\ (~Loaded \/ LoadReports > 0)) =>
        /\ LoadReports = 1
        /\ exitCode # 0
        /\ computeCalls = 0

\* The first pass through the startup path loaded the backend.
FirstLoadOk ==
    \/ Streaming /\ out # <<>> /\ IsReady(out[1])
    \/ worker = "llm_rag" /\ pc = "rag_generate" /\ Loaded

\* C11: when the startup path is entered twice in one process lifetime
\* (setup_model in the embedding worker, load_model in the RAG service) and the
\* first pass loaded the backend, the backend's load has been invoked only once.
C11_LoadedOnce ==
    (startups >= 2 /\ FirstLoadOk) => loadCalls = 1

OneShot == worker \in {"embed", "llm_rag"}

\* A one-shot process ended on its own, after it got to read its input.
OneShotDone ==
    /\ OneShot /\ pc = "exited" /\ ~signalled
    /\ worker = "embed" => consumed # <<>>

IsOneShotSuccess(m) ==
    \/ IsRagSuccess(m)
    \/ Has(m, "embedding") /\ m["embedding"] # "null" /\ ~Has(m, "error")
IsOneShotError(m) ==
    \/ IsRagResult(m) /\ m["success"] = "false" /\ Has(m, "error")
    \/ Has(m, "error") /\ Has(m, "embedding") /\ m["embedding"] = "null"

\* main's own handlers ran: stdin could not be read or is not JSON.
TopLevelFailure == consumed = <<>> \/ ~json_loads(consumed[1]).ok

\* C12, as claimed: a one-shot process writes exactly one response and exits
\* with code 0 if it is a success and with code 1 if it is an error.
C12_Original ==
    OneShotDone =>
        /\ Len(out) = 1
        /\ IsOneShotSuccess(out[1]) => exitCode = 0
        /\ IsOneShotError(out[1]) => exitCode = 1

\* C12, amended: a one-shot process writes exactly one response; embed.py exits
\* with 0 after a success and 1 after an error; llm_rag.py exits with 1 only
\* when stdin could not be read or parsed, and with 0 after any result of
\* process_request, success or error.
C12_Amended ==
    OneShotDone =>
        /\ Len(out) = 1
        /\ IsOneShotSuccess(out[1]) \/ IsOneShotError(out[1])
        /\ worker = "embed" => (exitCode = 0 <=> IsOneShotSuccess(out[1]))
        /\ worker = "embed" => (exitCode = 1 <=> IsOneShotError(out[1]))
        /\ worker = "llm_rag" => exitCode = (IF TopLevelFailure THEN 1 ELSE 0)
        /\ (worker = "llm_rag" /\ TopLevelFailure) => IsOneShotError(out[1])

C12_Witness ==
    /\ OneShotDone /\ worker = "llm_rag"
    /\ consumed = <<DNoQuery>>
    /\ IsOneShotError(out[1]) /\ exitCode = 0

\* The whole of stdin was read and is not a JSON document.
NotJson == consumed # <<>> /\ ~json_loads(strip(consumed[1])).ok

\* C13, as claimed: a one-shot process whose stdin is not parseable as JSON
\* emits an error response, exits with code 1 and never invokes the backend.
C13_Original ==
    (OneShot /\ NotJson) =>
        /\ computeCalls = 0 /\ pc # "oneshot_embedding"
        /\ (pc = "exited" /\ ~signalled) =>
              (Len(out) = 1 /\ IsOneShotError(out[1]) /\ exitCode = 1)

\* C13, amended: llm_rag.py answers stdin that is not JSON with one error
\* response and exits with code 1, its backend neither loaded nor invoked;
\* embed.py takes stdin that is not JSON as the text itself, so it embeds it
\* like any request, and only input that is empty after trimming is answered
\* with an error and code 1 without invoking the backend.
C13_Amended ==
    (OneShot /\ NotJson) =>
        /\ worker = "llm_rag" =>
              /\ computeCalls = 0 /\ loadCalls = 0
              /\ pc = "exited"
              /\ Len(out) = 1 /\ IsOneShotError(out[1]) /\ exitCode = 1
        /\ (worker = "embed" /\ strip(consumed[1]) = "") =>
              /\ computeCalls = 0
              /\ pc = "exited"
              /\ Len(out) = 1 /\ IsOneShotError(out[1]) /\ exitCode = 1
        /\ (worker = "embed" /\ strip(consumed[1]) # "") =>
              \/ pc = "oneshot_embedding" /\ computeCalls = 0 /\ out = <<>>
              \/ /\ pc = "exited" /\ computeCalls = 1 /\ Len(out) = 1
                 /\ exitCode = 0 <=> IsOneShotSuccess(out[1])
                 /\ exitCode = 1 <=> IsOneShotError(out[1])

C13_Witness ==
    /\ worker = "embed" /\ NotJson /\ consumed = <<DPlain>>
    /\ pc = "exited" /\ computeCalls = 1
    /\ IsOneShotSuccess(out[1]) /\ exitCode = 0

\* C14: in the streaming worker a termination signal never interrupts a line
\* already being processed: when a signal has ended the process after ready,
\* every request line taken from stdin has its response on stdout.
C14_SignalAtomicity ==
    (Streaming /\ signalled /\ out # <<>> /\ IsReady(out[1])) =>
        Len(Responses) = Len(Requests)

\* The streaming worker has reported ready.
IsUp == Streaming /\ out # <<>> /\ IsReady(out[1])

\* C15: once the streaming worker is ready, and with every backend call
\* returning, it eventually terminates with exit code 0; when it ended on
\* end-of-input, every non-blank line read has its response; an exit caused by a
\* caught signal has exit code 0 as well.
C15_ShutdownLiveness ==
    /\ [](IsUp /\ pc = "exited" => exitCode = 0)
    /\ [](IsUp /\ pc = "exited" /\ ~signalled =>
              /\ Len(Responses) = Len(Requests)
              /\ \A k \in 1..Len(Responses) : IsSuccess(Responses[k]) \/ IsError(Responses[k]))
    /\ IsUp ~> (pc = "exited" /\ exitCode = 0)

C15_Witness ==
    /\ IsUp /\ pc = "exited" /\ ~signalled /\ exitCode = 0
    /\ Len(Requests) = 2 /\ consumed[1] = LReq1
    /\ Len(Responses) = 2 /\ IsSuccess(Responses[1])

\* The RAG documents by what they lack.  DNoQuery lacks the search results too.
MissingResultsDocs == {DNoResults, DEmptyResults}
PassingDocs == {DValid, DValidModel}

\* The RAG worker rejected its request with error e and touched no backend.
RejectedWith(e) ==
    /\ loadCalls = 0 /\ computeCalls = 0 /\ rag_service = "None"
    /\ pc \in {"rag_process", "rag_print", "exited"}
    /\ pc = "rag_print" => result = RagError(e, "None")
    /\ (pc = "exited" /\ ~signalled) => out = <<json_dumps(RagError(e, "None"))>>

\* C16: the RAG worker checks the query first and the search results second: a
\* request without a query is answered "Query is required" whatever its search
\* results, one with a query and without search results "No search results
\* provided", neither loads or invokes the model, and only a request passing
\* both checks reaches the backend.
C16_ValidationOrder ==
    (worker = "llm_rag" /\ consumed # <<>>) =>
        /\ consumed[1] \in MissingQueryDocs => RejectedWith("Query is required")
        /\ consumed[1] \in MissingResultsDocs => RejectedWith("No search results provided")
        /\ (loadCalls > 0 \/ computeCalls > 0 \/ rag_service # "None") =>
              consumed[1] \in PassingDocs

C16_Witness ==
    /\ worker = "llm_rag" /\ pc = "exited" /\ ~signalled
    /\ consumed = <<DNoQuery>>
    /\ get(json_loads(DNoQuery), "search_results", "None") = "None"
    /\ out = <<json_dumps(RagError("Query is required", "None"))>>
    /\ loadCalls = 0

\* s in sub's place somewhere
HasSubstring(s, sub) ==
    \E i \in 1..(Len(s) - Len(sub) + 1) : SubSeq(s, i, i + Len(sub) - 1) = sub

\* The file name the i-th generated search result is from.
ExpectedName(i) == "f" \o ToStr(i) \o ".py"

\* C17: format_search_context renders min(n, K) blocks for n results and cap K:
\* block i is numbered i and shows the i-th result of the input (its file name
\* and its relevance), the blocks are joined in that order, and no result after
\* the K-th appears in the context.
C17_FirstKInOrder ==
    pc = "formatted" =>
        LET n == Len(search_results)
            m == IF max_results < n THEN max_results ELSE n
        IN  IF n = 0
            THEN context = NoResultsSentinel /\ context_parts = <<>>
            ELSE /\ Len(context_parts) = m
                 /\ context = Join(context_parts)
                 /\ \A i \in 1..m :
                       /\ StartsWith(context_parts[i],
                                     "\nCode Snippet " \o ToStr(i) \o " (Relevance: "
                                     \o FormatPercent(search_results[i].similarity)
                                     \o ") from " \o ExpectedName(i) \o ":\n")
                       /\ \A j \in 1..n : j # i =>
                             ~HasSubstring(context_parts[i], " " \o ExpectedName(j) \o ":")
                 /\ \A j \in (m + 1)..n :
                       ~HasSubstring(context, " " \o ExpectedName(j) \o ":")

C17_Witness ==
    /\ pc = "formatted"
    /\ Len(search_results) = MaxResults /\ max_results = DefaultMaxResults
    /\ Len(context_parts) = DefaultMaxResults
    /\ HasSubstring(context, "\nCode Snippet 8 (Relevance: 98.2%) from f8.py:\ncode 8\n")
    /\ ~HasSubstring(context, "f9.py")

\* The source text as block i of context_parts shows it.
RenderedText(i) ==
    SubSeq(context_parts[i], Len(BlockHeader(i, search_results[i])) + 1,
           Len(context_parts[i]) - 1)

\* C18: for every rendered search result, a source_text longer than 600
\* characters is shown as exactly its first 600 characters followed by "...",
\* and one of at most 600 characters is shown unmodified.
C18_Truncation ==
    pc = "formatted" =>
        \A i \in 1..Len(context_parts) :
            LET t == search_results[i].source_text IN
            /\ Len(t) > 600 =>
                  /\ RenderedText(i) = SubSeq(t, 1, 600) \o "..."
                  /\ Len(RenderedText(i)) = 603
            /\ Len(t) <= 600 => RenderedText(i) = t

C18_Witness ==
    /\ pc = "formatted" /\ Len(context_parts) >= 2
    /\ Len(search_results[1].source_text) = 601
    /\ RenderedText(1) = Text(600) \o "..."
    /\ RenderedText(2) = "code 2"

\* C19: the sentinel format_search_context returns for an empty list never
\* becomes the context of a prompt in a run of process_request: whenever the
\* RAG worker has formatted a context or invoked the model, the context is a
\* rendering of at least one search result.
C19_SentinelNeverPrompted ==
    worker = "llm_rag" =>
        /\ context # NoResultsSentinel
        /\ (computeCalls > 0 \/ context # "") =>
              /\ search_results # <<>>
              /\ Len(context_parts) >= 1
              /\ context = Join(context_parts)

C19_Witness ==
    /\ worker = "llm_rag" /\ computeCalls = 1 /\ consumed = <<DValid>>
    /\ context = "\nCode Snippet 1 (Relevance: 90.0%) from a.py:\nx\n"

\* C20: in the streaming worker a signal that arrives after the handlers are
\* installed and before setup_model has finished ends the process with exit
\* code 0 and nothing on stdout or stderr: no ready message, no error message,
\* no result.
C20_SignalDuringSetup ==
    (Streaming /\ signalled /\ loadCalls = 0) =>
        /\ pc = "exited" /\ exitCode = 0
        /\ out = <<>> /\ errout = <<>>
        /\ ~Loaded /\ consumed = <<>>

C20_Witness ==
    /\ Streaming /\ handlers /\ signalled /\ startups = 0
    /\ pc = "exited" /\ exitCode = 0 /\ out = <<>>

====
